---- MODULE Spec2Model ----
(***************************************************************************)
(* A model of two parts of the Monkey compiler/VM written in C++:          *)
(*   - compiler::SymbolTable (src/09/compiler/symbol_table.hpp)            *)
(*   - the object system and its index/truthiness helpers                  *)
(*     (src/10/objects/objects.hpp)                                        *)
(***************************************************************************)
EXTENDS Integers, Sequences, FiniteSets, TLC

(***************************************************************************)
(* Bounds of the model.                                                    *)
(***************************************************************************)
\* Symbol tables that exist at once, and Define/DefineBuiltin calls in a run.
MaxTables == 4
MaxCalls == 2
\* Objects allocated besides the three singletons; lengths of containers.
MaxAlloc == 2
MaxLen == 2
MaxPairs == 2
\* Width, in bits, of the machine integers of the model (int64_t, uint64_t
\* and size_t are all this wide): the wrap-around is the code's, the width is
\* scaled down to what the model checker's integers can hold.
WordBits == 16

\* Inputs.
Names == {"a", "b"}
BuiltinIndexes == {0, 1}
IntValues == -1..MaxLen
Strings == {"", "a"}
HashValues == {1, 7}
Messages == {"boom"}

\* tables: the SymbolTable objects; call: the last symbol-table call and what
\* it returned; defineCalls: per table, the Define calls made on it (history);
\* writes: the Define and DefineBuiltin calls made so far (history);
\* heap: the objects; res: the last helper call and its result;
\* strHash: std::hash<std::string>.
VARIABLES tables, call, defineCalls, writes, heap, res, strHash

symVars == <<tables, call, defineCalls, writes>>
objVars == <<heap, res, strHash>>
vars == <<tables, call, defineCalls, writes, heap, res, strHash>>

(***************************************************************************)
(* compiler::SymbolScopeType                                               *)
(***************************************************************************)
GlobalScope == "GLOBAL"
LocalScope == "LOCAL"
BuiltinScope == "BUILTIN"

\* A std::shared_ptr<Symbol> is the set holding the symbol it points to;
\* the null pointer is the empty set.
nullptr == {}

\* A std::shared_ptr<SymbolTable> is the table's position in tables; 0 is null.
NullTable == 0

Symbol(name, scope, idx) == [Name |-> name, Scope |-> scope, Index |-> idx]

\* std::map<std::string, std::shared_ptr<Symbol>>: a function whose domain
\* is the set of keys present.
EmptyStore == [n \in {} |-> nullptr]

StorePut(store, name, ptr) ==
    [n \in (DOMAIN store) \cup {name} |-> IF n = name THEN ptr ELSE store[n]]

TableIds == 1..Len(tables)

(***************************************************************************)
(* Variants of Resolve that differ from the source, used to show that the  *)
(* properties below depend on it.                                          *)
(***************************************************************************)
\* A symbol found in an enclosing table with a scope other than Global or
\* Builtin comes back as a symbol of scope "FREE" and index 0.
RECURSIVE ResolveInAsFree(_, _, _)
ResolveInAsFree(tabs, t, name) ==
    IF name \in DOMAIN tabs[t].store
    THEN tabs[t].store[name]
    ELSE IF tabs[t].Outer # NullTable
         THEN {IF s.Scope \in {GlobalScope, BuiltinScope} THEN s
               ELSE Symbol(s.Name, "FREE", 0) :
                 s \in ResolveInAsFree(tabs, tabs[t].Outer, name)}
         ELSE nullptr

\* Every symbol found in an enclosing table comes back as a Local one.
RECURSIVE ResolveInAlwaysLocal(_, _, _)
ResolveInAlwaysLocal(tabs, t, name) ==
    IF name \in DOMAIN tabs[t].store
    THEN tabs[t].store[name]
    ELSE IF tabs[t].Outer # NullTable
         THEN {Symbol(s.Name, LocalScope, s.Index) :
                 s \in ResolveInAlwaysLocal(tabs, tabs[t].Outer, name)}
         ELSE nullptr

\* The enclosing tables are searched before the current one.
RECURSIVE ResolveInOuterFirst(_, _, _)
ResolveInOuterFirst(tabs, t, name) ==
    LET outer == IF tabs[t].Outer # NullTable
                 THEN ResolveInOuterFirst(tabs, tabs[t].Outer, name)
                 ELSE nullptr
    IN IF outer # nullptr THEN outer
       ELSE IF name \in DOMAIN tabs[t].store THEN tabs[t].store[name]
       ELSE nullptr

(***************************************************************************)
(* SymbolTable::Resolve, as a function of the tables                       *)
(***************************************************************************)
RECURSIVE ResolveIn(_, _, _)
ResolveIn(tabs, t, name) ==
    IF name \in DOMAIN tabs[t].store
    THEN tabs[t].store[name]
    ELSE IF tabs[t].Outer # NullTable
         THEN ResolveIn(tabs, tabs[t].Outer, name)
         ELSE nullptr

(***************************************************************************)
(* Operations                                                              *)
(***************************************************************************)
\* std::make_shared<SymbolTable>(): value-initialised, so Outer is null, the
\* store is empty and numDefinitions is 0.
NewSymbolTable ==
    [Outer |-> NullTable, store |-> EmptyStore, numDefinitions |-> 0]

NewEnclosedSymbolTable(outer) ==
    /\ Len(tables) < MaxTables
    /\ tables' = Append(tables, [NewSymbolTable EXCEPT !.Outer = outer])
    /\ defineCalls' = Append(defineCalls, 0)
    /\ call' = [op |-> "NewEnclosedSymbolTable", table |-> Len(tables) + 1,
                name |-> "", ret |-> nullptr]
    /\ UNCHANGED <<writes, objVars>>

\* Define with numDefinitions incremented before it is used as the index.
DefineIncrementsFirst(t, name) ==
    /\ writes < MaxCalls
    /\ writes' = writes + 1
    /\ LET symbol == Symbol(name,
                            IF tables[t].Outer = NullTable
                            THEN GlobalScope ELSE LocalScope,
                            tables[t].numDefinitions + 1)
       IN /\ tables' = [tables EXCEPT
                          ![t].store = StorePut(@, name, {symbol}),
                          ![t].numDefinitions = @ + 1]
          /\ call' = [op |-> "Define", table |-> t, name |-> name,
                      ret |-> {symbol}]
    /\ defineCalls' = [defineCalls EXCEPT ![t] = @ + 1]
    /\ UNCHANGED objVars

Define(t, name) ==
    /\ writes < MaxCalls
    /\ writes' = writes + 1
    /\ LET symbol == Symbol(name,
                            IF tables[t].Outer = NullTable
                            THEN GlobalScope ELSE LocalScope,
                            tables[t].numDefinitions)
       IN /\ tables' = [tables EXCEPT
                          ![t].store = StorePut(@, name, {symbol}),
                          ![t].numDefinitions = @ + 1]
          /\ call' = [op |-> "Define", table |-> t, name |-> name,
                      ret |-> {symbol}]
    /\ defineCalls' = [defineCalls EXCEPT ![t] = @ + 1]
    /\ UNCHANGED objVars

\* DefineBuiltin that advances numDefinitions as Define does.
DefineBuiltinCounting(t, index, name) ==
    /\ writes < MaxCalls
    /\ writes' = writes + 1
    /\ LET symbol == Symbol(name, BuiltinScope, index)
       IN /\ tables' = [tables EXCEPT
                          ![t].store = StorePut(@, name, {symbol}),
                          ![t].numDefinitions = @ + 1]
          /\ call' = [op |-> "DefineBuiltin", table |-> t, name |-> name,
                      ret |-> {symbol}]
    /\ UNCHANGED <<defineCalls, objVars>>

DefineBuiltin(t, index, name) ==
    /\ writes < MaxCalls
    /\ writes' = writes + 1
    /\ LET symbol == Symbol(name, BuiltinScope, index)
       IN /\ tables' = [tables EXCEPT ![t].store = StorePut(@, name, {symbol})]
          /\ call' = [op |-> "DefineBuiltin", table |-> t, name |-> name,
                      ret |-> {symbol}]
    /\ UNCHANGED <<defineCalls, objVars>>

\* The tables Resolve(t, name) visits: t, then outwards until the name is found.
RECURSIVE Visited(_, _, _)
Visited(tabs, t, name) ==
    {t} \cup (IF name \notin DOMAIN tabs[t].store /\ tabs[t].Outer # NullTable
              THEN Visited(tabs, tabs[t].Outer, name)
              ELSE {})

\* Resolve looking the name up with store[name], which files a null pointer
\* under a name the table does not have.
ResolveSubscript(t, name) ==
    /\ call' = [op |-> "Resolve", table |-> t, name |-> name,
                ret |-> ResolveIn(tables, t, name)]
    /\ tables' = [u \in DOMAIN tables |->
                    IF u \in Visited(tables, t, name) /\ name \notin DOMAIN tables[u].store
                    THEN [tables[u] EXCEPT !.store = StorePut(@, name, nullptr)]
                    ELSE tables[u]]
    /\ UNCHANGED <<defineCalls, writes, objVars>>

Resolve(t, name) ==
    /\ call' = [op |-> "Resolve", table |-> t, name |-> name,
                ret |-> ResolveIn(tables, t, name)]
    /\ UNCHANGED <<tables, defineCalls, writes, objVars>>

\* The compiler starts from one global table, NewSymbolTable().
SymInit ==
    /\ tables = <<NewSymbolTable>>
    /\ defineCalls = <<0>>
    /\ writes = 0
    /\ call = [op |-> "none", table |-> NullTable, name |-> "", ret |-> nullptr]

SymNext ==
    \/ \E outer \in TableIds : NewEnclosedSymbolTable(outer)
    \/ \E t \in TableIds, name \in Names : Define(t, name)
    \/ \E t \in TableIds, index \in BuiltinIndexes, name \in Names :
          DefineBuiltin(t, index, name)
    \/ \E t \in TableIds, name \in Names : Resolve(t, name)

(***************************************************************************)
(* objects::Object and its subclasses.  The heap is the sequence of the    *)
(* objects allocated so far; a std::shared_ptr<Object> is a position in    *)
(* it, and 0 is the null pointer.                                          *)
(***************************************************************************)
NULL_OBJ == 1
TRUE_OBJ == 2
FALSE_OBJ == 3

ObjIds == 1..Len(heap)

TwoPow(n) == 2 ^ n

\* The size compared as the unsigned number it is, with no cast to int64_t.
ToInt64Unsigned(u) == u

\* static_cast<uint64_t>(v) and static_cast<int64_t>(u)
ToUint64(v) == v % TwoPow(WordBits)
ToInt64(u) == IF u >= TwoPow(WordBits - 1) THEN u - TwoPow(WordBits) ELSE u

HashKey(type, val) == [Type |-> type, Value |-> val]

\* HashKey::operator== and HashKey::operator<
HashKeyEq(a, b) == a.Type = b.Type /\ a.Value = b.Value
HashKeyLess(a, b) == a.Value < b.Value

\* virtual ObjectType Type()
Type(o) ==
    CASE o.class = "Integer" -> "INTEGER"
      [] o.class = "Boolean" -> "BOOLEAN"
      [] o.class = "String" -> "STRING"
      [] o.class = "Array" -> "ARRAY"
      [] o.class = "Null" -> "Null"
      [] o.class = "ReturnValue" -> "RETURN_VALUE"
      [] o.class = "Error" -> "ERROR"
      [] o.class = "Hash" -> "HASH"
      [] o.class = "Function" -> "FUNCTION"
      [] o.class = "CompiledFunction" -> "COMPILED_FUNCTION"
      [] o.class = "Closure" -> "CLOSURE"

\* Object::Hashable() answering true, so that every class is hashable.
HashableByDefault(o) == TRUE

\* virtual bool Hashable(): false in Object, overridden by Integer, Boolean
\* and String.
Hashable(o) == o.class \in {"Integer", "Boolean", "String"}

\* Object::TypeStr(): the switch has no case for CLOSURE.
TypeStr(o) ==
    IF Type(o) \in {"Null", "ERROR", "INTEGER", "BOOLEAN", "STRING",
                    "RETURN_VALUE", "FUNCTION", "ARRAY", "HASH", "BUILTIN",
                    "COMPILED_FUNCTION"}
    THEN Type(o)
    ELSE "BadType"

\* virtual HashKey GetHashKey()
GetHashKey(o) ==
    CASE o.class = "Integer" -> HashKey(Type(o), ToUint64(o.Value))
      [] o.class = "Boolean" -> HashKey(Type(o), IF o.Value THEN 1 ELSE 0)
      [] o.class = "String" -> HashKey(Type(o), strHash[o.Value])
      [] OTHER -> HashKey(Type(o), 0)

\* std::map<HashKey, ...>::find: the entry whose key is equivalent to k under
\* the map's ordering, neither less than the other.
MapFind(pairs, k) ==
    {e \in pairs : ~HashKeyLess(e.HashKey, k) /\ ~HashKeyLess(k, e.HashKey)}

\* What a std::map<HashKey, std::shared_ptr<HashPair>> can hold: no two
\* entries with equivalent keys.
IsMap(pairs) ==
    \A e1, e2 \in pairs :
        (~HashKeyLess(e1.HashKey, e2.HashKey) /\ ~HashKeyLess(e2.HashKey, e1.HashKey))
            => e1 = e2

\* A HashPair filed under its key object's hash key.
Entry(k, v) == [HashKey |-> GetHashKey(heap[k]), Key |-> k, Value |-> v]

\* The heap of the model holds the three singletons and MaxAlloc more objects.
HasRoom == Len(heap) < 3 + MaxAlloc

Alloc(o) ==
    /\ HasRoom
    /\ heap' = Append(heap, o)

NoResult ==
    [op |-> "none", left |-> 0, index |-> 0, input |-> FALSE, out |-> 0,
     truthy |-> FALSE]

(***************************************************************************)
(* Constructors                                                            *)
(***************************************************************************)
NewInteger(val) ==
    /\ Alloc([class |-> "Integer", Value |-> val])
    /\ res' = NoResult
    /\ UNCHANGED <<strHash, symVars>>

NewBoolean(val) ==
    /\ Alloc([class |-> "Boolean", Value |-> val])
    /\ res' = NoResult
    /\ UNCHANGED <<strHash, symVars>>

NewString(val) ==
    /\ Alloc([class |-> "String", Value |-> val])
    /\ res' = NoResult
    /\ UNCHANGED <<strHash, symVars>>

\* Null, Function, CompiledFunction and Closure: the payload plays no part
\* in Type, Hashable, GetHashKey or truthiness.
NewObject(class) ==
    /\ Alloc([class |-> class])
    /\ res' = NoResult
    /\ UNCHANGED <<strHash, symVars>>

NewReturnValue(val) ==
    /\ Alloc([class |-> "ReturnValue", Value |-> val])
    /\ res' = NoResult
    /\ UNCHANGED <<strHash, symVars>>

newError(msg) ==
    /\ Alloc([class |-> "Error", Message |-> msg])
    /\ res' = NoResult
    /\ UNCHANGED <<strHash, symVars>>

NewArray(elements) ==
    /\ Alloc([class |-> "Array", Elements |-> elements])
    /\ res' = NoResult
    /\ UNCHANGED <<strHash, symVars>>

NewHash(pairs) ==
    /\ IsMap(pairs)
    /\ Alloc([class |-> "Hash", Pairs |-> pairs])
    /\ res' = NoResult
    /\ UNCHANGED <<strHash, symVars>>

(***************************************************************************)
(* Helpers                                                                 *)
(***************************************************************************)
isTruthy(obj) ==
    /\ res' = [NoResult EXCEPT !.op = "isTruthy", !.left = obj,
                 !.truthy = IF obj = NULL_OBJ THEN FALSE
                            ELSE IF obj = TRUE_OBJ THEN TRUE
                            ELSE IF obj = FALSE_OBJ THEN FALSE
                            ELSE TRUE]
    /\ UNCHANGED <<heap, strHash, symVars>>

nativeBoolToBooleanObject(input) ==
    /\ res' = [NoResult EXCEPT !.op = "nativeBoolToBooleanObject",
                 !.input = input,
                 !.out = IF input THEN TRUE_OBJ ELSE FALSE_OBJ]
    /\ UNCHANGED <<heap, strHash, symVars>>

\* Elements[idx]; a read outside the vector has no defined result (0 here).
VectorAt(elements, idx) ==
    IF idx >= 0 /\ idx < Len(elements) THEN elements[idx + 1] ELSE 0

\* Callers pass an Array as left and an Integer as index.
evalArrayIndexExpression(left, index) ==
    /\ heap[left].class = "Array"
    /\ heap[index].class = "Integer"
    /\ LET idx == heap[index].Value
           max == ToInt64(ToUint64(Len(heap[left].Elements) - 1))
       IN res' = [NoResult EXCEPT !.op = "evalArrayIndexExpression",
                    !.left = left, !.index = index,
                    !.out = IF idx < 0 \/ idx > max
                            THEN NULL_OBJ
                            ELSE VectorAt(heap[left].Elements, idx)]
    /\ UNCHANGED <<heap, strHash, symVars>>

\* Callers pass a Hash as left.
evalHashIndexExpression(left, index) ==
    /\ heap[left].class = "Hash"
    /\ IF ~Hashable(heap[index])
       THEN /\ Alloc([class |-> "Error",
                      Message |-> "unusable as hash key: " \o TypeStr(heap[index])])
            /\ res' = [NoResult EXCEPT !.op = "evalHashIndexExpression",
                         !.left = left, !.index = index,
                         !.out = Len(heap) + 1]
       ELSE LET hashed == GetHashKey(heap[index])
                fit == MapFind(heap[left].Pairs, hashed)
            IN /\ res' = [NoResult EXCEPT !.op = "evalHashIndexExpression",
                            !.left = left, !.index = index,
                            !.out = IF fit = {} THEN NULL_OBJ
                                    ELSE (CHOOSE e \in fit : TRUE).Value]
               /\ UNCHANGED heap
    /\ UNCHANGED <<strHash, symVars>>

\* NULL_OBJ, TRUE_OBJ and FALSE_OBJ exist from the start; std::hash is some
\* function of the string.
ObjInit ==
    /\ heap = << [class |-> "Null"],
                 [class |-> "Boolean", Value |-> TRUE],
                 [class |-> "Boolean", Value |-> FALSE] >>
    /\ res = NoResult
    /\ strHash \in [Strings -> HashValues]

SeqsUpTo(S, n) == UNION {[1..k -> S] : k \in 0..n}

HashableIds == {k \in ObjIds : Hashable(heap[k])}

\* Maps of at most n pairs: some hashable objects as keys, each with one of
\* the singletons as its value.
MapsUpTo(n) ==
    UNION { { {Entry(k, f[k]) : k \in K} : f \in [K -> {NULL_OBJ, TRUE_OBJ, FALSE_OBJ}] } :
            K \in {K \in SUBSET HashableIds : Cardinality(K) <= n} }

AllocScalar ==
    \/ \E val \in IntValues : NewInteger(val)
    \/ \E val \in BOOLEAN : NewBoolean(val)
    \/ \E val \in Strings : NewString(val)

AllocOther ==
    \/ \E class \in {"Null", "Function", "CompiledFunction", "Closure"} :
          NewObject(class)
    \/ \E val \in ObjIds : NewReturnValue(val)
    \/ \E msg \in Messages : newError(msg)

TruthyNext ==
    \/ AllocScalar
    \/ AllocOther
    \/ HasRoom /\ \E elements \in SeqsUpTo(ObjIds, 1) : NewArray(elements)
    \/ HasRoom /\ \E pairs \in MapsUpTo(1) : NewHash(pairs)
    \/ \E obj \in ObjIds : isTruthy(obj)
    \/ \E input \in BOOLEAN : nativeBoolToBooleanObject(input)

ArrayNext ==
    \/ \E val \in IntValues : NewInteger(val)
    \/ HasRoom /\ \E elements \in SeqsUpTo(ObjIds, MaxLen) : NewArray(elements)
    \/ \E left, index \in ObjIds : evalArrayIndexExpression(left, index)

HashNext ==
    \/ \E val \in -1..1 : NewInteger(val)
    \/ \E val \in BOOLEAN : NewBoolean(val)
    \/ \E val \in Strings : NewString(val)
    \/ \E class \in {"Null", "Function", "CompiledFunction", "Closure"} :
          NewObject(class)
    \/ NewReturnValue(NULL_OBJ)
    \/ HasRoom /\ \E elements \in SeqsUpTo(ObjIds, 1) : NewArray(elements)
    \/ HasRoom /\ \E pairs \in MapsUpTo(MaxPairs) : NewHash(pairs)
    \/ \E left, index \in ObjIds : evalHashIndexExpression(left, index)

Init == SymInit /\ ObjInit

\* Where no String is used as a hash key, one std::hash suffices.
InitOneHash == Init /\ strHash = [s \in Strings |-> 1]

SpecSymbolTable == InitOneHash /\ [][SymNext]_vars
SpecTruthy == InitOneHash /\ [][TruthyNext]_vars
SpecArray == InitOneHash /\ [][ArrayNext]_vars
SpecHash == Init /\ [][HashNext]_vars
(***************************************************************************)
(* Properties of the symbol table                                          *)
(***************************************************************************)
\* The tables from t outwards along the Outer links, t first.
RECURSIVE ChainOf(_, _)
ChainOf(tabs, t) ==
    <<t>> \o (IF tabs[t].Outer = NullTable THEN <<>> ELSE ChainOf(tabs, tabs[t].Outer))

\* The positions in t's chain of the tables that have an entry for name.
Having(tabs, t, name) ==
    {i \in DOMAIN ChainOf(tabs, t) : name \in DOMAIN tabs[ChainOf(tabs, t)[i]].store}

Least(S) == CHOOSE i \in S : \A j \in S : i <= j

\* The nearest table of t's chain that has an entry for name; NullTable if none.
DefiningTable(tabs, t, name) ==
    IF Having(tabs, t, name) = {} THEN NullTable
    ELSE ChainOf(tabs, t)[Least(Having(tabs, t, name))]

\* The tables strictly enclosing t.
Enclosing(tabs, t) == {ChainOf(tabs, t)[i] : i \in 2..Len(ChainOf(tabs, t))}

\* The scope the specification gives to a captured variable; the source has
\* no such scope.
FreeScope == "FREE"

\* C1: Define(name) returns and stores under name a symbol whose Scope is
\* Global when the table has no Outer and Local when it has one, and whose
\* Index is the value numDefinitions had before the call; numDefinitions grows
\* by exactly 1; the first Define on a table yields index 0.
C1_DefineScopeAndIndex ==
    [][call'.op = "Define" =>
        LET t == call'.table
            expected == Symbol(call'.name,
                               IF tables[t].Outer = NullTable
                               THEN GlobalScope ELSE LocalScope,
                               tables[t].numDefinitions)
        IN /\ call'.ret = {expected}
           /\ tables'[t].store[call'.name] = {expected}
           /\ tables'[t].numDefinitions = tables[t].numDefinitions + 1
           /\ (defineCalls[t] = 0 => expected.Index = 0)]_vars

\* A second Define on an enclosed table, made after a DefineBuiltin or a Define.
C1_Witness ==
    /\ call.op = "Define"
    /\ tables[call.table].Outer # NullTable
    /\ call.ret = {Symbol(call.name, LocalScope, 1)}

C3_ResolveRootSymbolUnchanged ==
    (/\ call.op = "Resolve"
     /\ DefiningTable(tables, call.table, call.name) # NullTable
     /\ tables[DefiningTable(tables, call.table, call.name)].Outer = NullTable)
    => LET root == DefiningTable(tables, call.table, call.name)
       IN /\ call.ret # nullptr
          /\ \A s \in call.ret :
                /\ \E r \in tables[root].store[call.name] :
                      s.Name = r.Name /\ s.Scope = r.Scope /\ s.Index = r.Index
                /\ s.Scope \in {GlobalScope, BuiltinScope}

\* Resolve two tables below the root finds the root's builtin of index 1.
C3_Witness ==
    /\ call.op = "Resolve"
    /\ Len(ChainOf(tables, call.table)) >= 3
    /\ Having(tables, call.table, call.name) = {Len(ChainOf(tables, call.table))}
    /\ call.ret = {Symbol(call.name, BuiltinScope, 1)}

\* C8: Resolve returns no symbol exactly when no table of the chain has the
\* name; otherwise it returns the symbol, of that Name, of the nearest table
\* of the chain that has it.
C8_ResolveNearestOrNone ==
    call.op = "Resolve" =>
        /\ (call.ret = nullptr) <=> (Having(tables, call.table, call.name) = {})
        /\ Having(tables, call.table, call.name) # {} =>
              /\ call.ret =
                    tables[DefiningTable(tables, call.table, call.name)].store[call.name]
              /\ \A s \in call.ret : s.Name = call.name

\* An inner definition shadows an outer one of the same name.
C8_Witness ==
    /\ call.op = "Resolve"
    /\ Cardinality(Having(tables, call.table, call.name)) = 2
    /\ \E o \in Enclosing(tables, call.table) :
          /\ call.name \in DOMAIN tables[o].store
          /\ tables[o].store[call.name] # call.ret
    /\ call.ret # nullptr

\* C9: Resolve on a table changes no enclosing table: each keeps its entry
\* for the resolved name (or keeps having none) and its numDefinitions.
C9_ResolveLeavesEnclosingTables ==
    [][call'.op = "Resolve" =>
        \A u \in Enclosing(tables, call'.table) :
            /\ (call'.name \in DOMAIN tables'[u].store)
                  <=> (call'.name \in DOMAIN tables[u].store)
            /\ call'.name \in DOMAIN tables[u].store =>
                  tables'[u].store[call'.name] = tables[u].store[call'.name]
            /\ tables'[u].numDefinitions = tables[u].numDefinitions
            /\ tables'[u].Outer = tables[u].Outer]_vars

\* Resolve on the middle table of three nested ones found the name in the
\* outermost of the three, whose entry is still the one Define made.
C9_Witness ==
    /\ call.op = "Resolve"
    /\ Len(ChainOf(tables, call.table)) = 3
    /\ Having(tables, call.table, call.name) = {2}
    /\ call.ret # nullptr
    /\ LET o == ChainOf(tables, call.table)[2]
       IN /\ tables[o].store[call.name] = {Symbol(call.name, LocalScope, 0)}
          /\ tables[o].numDefinitions = 1

\* C10: in every table, numDefinitions is the number of Define calls made on
\* it, every stored Global or Local symbol has 0 <= Index < numDefinitions,
\* and two stored Global or Local symbols of different names have different
\* indexes.
C10_TableInvariant ==
    \A t \in TableIds :
        LET defined == {n \in DOMAIN tables[t].store :
                          \E s \in tables[t].store[n] :
                             s.Scope \in {GlobalScope, LocalScope}}
        IN /\ tables[t].numDefinitions = defineCalls[t]
           /\ \A n \in defined : \A s \in tables[t].store[n] :
                 0 <= s.Index /\ s.Index < tables[t].numDefinitions
           /\ \A n1, n2 \in defined :
                 n1 # n2 => \A s1 \in tables[t].store[n1], s2 \in tables[t].store[n2] :
                               s1.Index # s2.Index

\* A name defined twice on one table: the second index replaced the first.
C10_Witness ==
    \E t \in TableIds :
        /\ tables[t].numDefinitions = 2
        /\ DOMAIN tables[t].store = {"a"}
        /\ \E s \in tables[t].store["a"] : s.Scope = GlobalScope /\ s.Index = 1

(***************************************************************************)
(* Properties of the objects                                               *)
(***************************************************************************)
HashableTypes == {"BOOLEAN", "INTEGER", "STRING"}

\* C4 (as stated): indexing a Hash with a hashable index returns the Value of
\* a stored pair only if that pair's key equals the index's key in Type and in
\* Value, and Null when no stored key equals it in both.
C4_HashLookupStructural ==
    (res.op = "evalHashIndexExpression" /\ Hashable(heap[res.index])) =>
        LET equal == {e \in heap[res.left].Pairs :
                         HashKeyEq(e.HashKey, GetHashKey(heap[res.index]))}
        IN IF equal = {} THEN res.out = NULL_OBJ
           ELSE \E e \in equal : res.out = e.Value

\* C5: Hashable() is true for exactly the Bool, Int64 and Str objects; indexing
\* a Hash with a non-hashable index yields a new Error with the message
\* "unusable as hash key: <type>", never a stored value or Null; a hashable
\* index never yields that error; the Hash's Pairs are unchanged either way.
C5_HashableAndUnusableKey ==
    [][res'.op = "evalHashIndexExpression" =>
        LET left == res'.left
            index == heap[res'.index]
            stored == {e.Value : e \in heap[left].Pairs}
        IN /\ \A k \in DOMAIN heap' : Hashable(heap'[k]) <=> Type(heap'[k]) \in HashableTypes
           /\ heap'[left].Pairs = heap[left].Pairs
           /\ \A k \in DOMAIN heap : heap'[k] = heap[k]
           /\ IF Type(index) \in HashableTypes
              THEN /\ heap' = heap
                   /\ res'.out \in stored \cup {NULL_OBJ}
              ELSE /\ res'.out \notin DOMAIN heap
                   /\ heap'[res'.out] =
                         [class |-> "Error",
                          Message |-> "unusable as hash key: " \o TypeStr(index)]]_vars

\* A Hash holding a pair, indexed with the Null singleton.
C5_Witness ==
    /\ res.op = "evalHashIndexExpression"
    /\ res.index = NULL_OBJ
    /\ heap[res.left].Pairs # {}
    /\ heap[res.out] = [class |-> "Error", Message |-> "unusable as hash key: Null"]

\* C6: for an Array of length n and an index i, evalArrayIndexExpression
\* returns the Null singleton when i < 0 or i >= n and Elements[i] when
\* 0 <= i < n; it never reads outside Elements.
C6_ArrayIndex ==
    res.op = "evalArrayIndexExpression" =>
        LET elements == heap[res.left].Elements
            i == heap[res.index].Value
        IN /\ (i < 0 \/ i >= Len(elements)) => res.out = NULL_OBJ
           /\ (0 <= i /\ i < Len(elements)) => res.out = elements[i + 1]
           /\ res.out \in ObjIds

\* The empty array indexed with 0.
C6_Witness ==
    /\ res.op = "evalArrayIndexExpression"
    /\ heap[res.left].Elements = <<>>
    /\ heap[res.index].Value = 0
    /\ res.out = NULL_OBJ

\* C7 (as stated): isTruthy(obj) is false exactly when obj is a Null or a
\* Boolean whose Value is false, whichever instance it is.
C7_TruthyByValue ==
    res.op = "isTruthy" =>
        (res.truthy = FALSE) <=>
            \/ heap[res.left].class = "Null"
            \/ (heap[res.left].class = "Boolean" /\ heap[res.left].Value = FALSE)
====
